---- MODULE Spec2Model ----
(***************************************************************************)
(* Model of the Turing Pi 2 BMC API client (package bmcapi).               *)
(*                                                                         *)
(* A response body is modelled by the JSON text it holds, as a tree:       *)
(*   [bad |-> TRUE]      bytes that are not JSON (the empty body included)  *)
(*   [null |-> TRUE]     null                                              *)
(*   [str |-> s]         a JSON string                                     *)
(*   [num |-> n]         a JSON number                                     *)
(*   [arr |-> <<..>>]    a JSON array                                      *)
(*   [obj |-> <<..>>]    a JSON object, the sequence of its members        *)
(*                       [k |-> key, v |-> value], keys distinct and       *)
(*                       spelled as the struct tags spell them             *)
(* json.Unmarshal is modelled by what encoding/json does with such a tree  *)
(* for the struct types of the package.                                    *)
(*                                                                         *)
(* What an operation hands back is one of                                  *)
(*   [err |-> kind, msg |-> text]   a returned error                       *)
(*   [panic |-> text]               a run-time panic: nothing is returned  *)
(*   [string |-> s]                 a *string                              *)
(*   [map |-> entries]              a map[string]string, as the set of its *)
(*                                  entries [key |-> k, val |-> v]         *)
(*   [other |-> record]             a *bmcOther                            *)
(*   [bytes |-> body]               the body bytes bmcAPICall returns      *)
(***************************************************************************)
EXTENDS Integers, Sequences, FiniteSets, TLC

VARIABLES
    client,      \* the *BMCAPI NewBMCAPI returned, or NoClient
    newCall,     \* the NewBMCAPI call: position, arguments, request, response, error
    nRequests,   \* number of requests the transport (http.Client) has been handed
    calls,       \* per caller: the operation call it is in
    helperIn,    \* body bytes handed to a parse helper
    helperOut    \* which parse helper ran on helperIn and what it returned

vars == <<client, newCall, nRequests, calls, helperIn, helperOut>>

----------------------------------------------------------------------------
(* Bounds *)

MaxResponseLen == 2   \* longest outer "response" list among the bodies
MaxResultLen == 1     \* longest inner "result" list among the bodies
MaxRequests == 3      \* requests the transport serves in one run
NumCallers == 2       \* concurrent callers of one client

----------------------------------------------------------------------------
(* JSON trees *)

JBad == [bad |-> TRUE]
JNull == [null |-> TRUE]
JStr(s) == [str |-> s]
JNum(n) == [num |-> n]
JArr(s) == [arr |-> s]
JObj(m) == [obj |-> m]
Member(key, value) == [k |-> key, v |-> value]

IsBad(j) == "bad" \in DOMAIN j
IsNull(j) == "null" \in DOMAIN j
IsStr(j) == "str" \in DOMAIN j
IsArr(j) == "arr" \in DOMAIN j
IsObj(j) == "obj" \in DOMAIN j

HasKey(j, key) == \E i \in 1..Len(j.obj) : j.obj[i].k = key
Field(j, key) == j.obj[CHOOSE i \in 1..Len(j.obj) : j.obj[i].k = key].v

SeqsUpTo(S, n) == UNION { [1..k -> S] : k \in 0..n }

----------------------------------------------------------------------------
(* Results *)

ConfigError == "ConfigError"
ValidationError == "ValidationError"
AuthenticationError == "AuthenticationError"
TransportError == "TransportError"
HTTPStatusError == "HTTPStatusError"
ParseError == "ParseError"

ErrorKinds == {ConfigError, ValidationError, AuthenticationError,
               TransportError, HTTPStatusError, ParseError}

Error(kind, text) == [err |-> kind, msg |-> text]
Panic(text) == [panic |-> text]
IsError(r) == "err" \in DOMAIN r
IsPanic(r) == "panic" \in DOMAIN r

\* fmt.Errorf(prefix + "%w", err): the wrapped error keeps its kind
Wrap(prefix, e) == Error(e.err, prefix \o e.msg)

None == [none |-> TRUE]
IsNone(r) == "none" \in DOMAIN r

----------------------------------------------------------------------------
(* encoding/json on the response structs *)

\* a Go string field takes a JSON string; null leaves it as it is; anything
\* else is an UnmarshalTypeError
StringOK(j) == IsStr(j) \/ IsNull(j)
StringOf(j) == IF IsStr(j) THEN j.str ELSE ""

\* struct { Result string `json:"result"` }
ResultElemOK(j) ==
    \/ IsNull(j)
    \/ IsObj(j) /\ (HasKey(j, "result") => StringOK(Field(j, "result")))
ResultElemOf(j) ==
    [Result |-> IF IsObj(j) /\ HasKey(j, "result")
                THEN StringOf(Field(j, "result")) ELSE ""]

\* map[string]string: every member's value must be a string (or null)
MapOK(j) ==
    \/ IsNull(j)
    \/ IsObj(j) /\ \A i \in 1..Len(j.obj) : StringOK(j.obj[i].v)
MapOf(j) ==
    IF IsObj(j)
    THEN { [key |-> j.obj[i].k, val |-> StringOf(j.obj[i].v)] : i \in 1..Len(j.obj) }
    ELSE {}

\* struct { Result []map[string]string `json:"result"` }
ObjectElemOK(j) ==
    \/ IsNull(j)
    \/ IsObj(j) /\ (HasKey(j, "result") =>
          LET r == Field(j, "result") IN
            \/ IsNull(r)
            \/ IsArr(r) /\ \A i \in 1..Len(r.arr) : MapOK(r.arr[i]))
ObjectElemOf(j) ==
    [Result |-> IF IsObj(j) /\ HasKey(j, "result") /\ IsArr(Field(j, "result"))
                THEN [i \in 1..Len(Field(j, "result").arr) |->
                          MapOf(Field(j, "result").arr[i])]
                ELSE <<>>]

\* the elements of the "response" array, none when there is no array
ResponseItems(j) ==
    IF IsObj(j) /\ HasKey(j, "response") /\ IsArr(Field(j, "response"))
    THEN Field(j, "response").arr
    ELSE <<>>

\* json.Unmarshal into a struct { Response []T `json:"response"` }: "nil"
\* for well-typed input, the kind of error otherwise; elemsOK says whether
\* every element of the array fits T
UnmarshalError(j, elemsOK) ==
    IF IsBad(j) THEN "syntax error"
    ELSE IF IsNull(j) THEN "nil"
    ELSE IF ~IsObj(j) THEN "type error"
    ELSE IF ~HasKey(j, "response") THEN "nil"
    ELSE IF IsNull(Field(j, "response")) THEN "nil"
    ELSE IF ~IsArr(Field(j, "response")) THEN "type error"
    ELSE IF elemsOK THEN "nil"
    ELSE "type error"

ResultUnmarshalError(j) ==
    UnmarshalError(j, \A i \in 1..Len(ResponseItems(j)) : ResultElemOK(ResponseItems(j)[i]))
ObjectUnmarshalError(j) ==
    UnmarshalError(j, \A i \in 1..Len(ResponseItems(j)) : ObjectElemOK(ResponseItems(j)[i]))

bmcResultAPIResponse(j) ==
    [Response |-> [i \in 1..Len(ResponseItems(j)) |-> ResultElemOf(ResponseItems(j)[i])]]
bmcObjectAPIResponse(j) ==
    [Response |-> [i \in 1..Len(ResponseItems(j)) |-> ObjectElemOf(ResponseItems(j)[i])]]

----------------------------------------------------------------------------
(* The parse helpers *)

resultAPIParse_NoEmptyCheck(bodyBytes) ==
    LET e == ResultUnmarshalError(bodyBytes)
        parsed == bmcResultAPIResponse(bodyBytes)
    IN IF e # "nil"
       THEN Error(ParseError, "error parsing json in token response: " \o e)
       ELSE IF Len(parsed.Response) = 0
       THEN Panic("index out of range [0] with length 0")
       ELSE [string |-> parsed.Response[1].Result]

\* parsed.Response[0] is read without a length check: an empty Response
\* slice is a run-time panic
resultAPIParse(bodyBytes) ==
    LET e == ResultUnmarshalError(bodyBytes)
        parsed == bmcResultAPIResponse(bodyBytes)
    IN IF e # "nil"
       THEN Error(ParseError, "error parsing json in token response: " \o e)
       ELSE IF Len(parsed.Response) = 0
       THEN Panic("index out of range [0] with length 0")
       ELSE IF parsed.Response[1].Result = ""
       THEN Error(ParseError, "result field in API response is empty")
       ELSE [string |-> parsed.Response[1].Result]

objectAPIParse_NoInnerCheck(bodyBytes) ==
    LET e == ObjectUnmarshalError(bodyBytes)
        parsed == bmcObjectAPIResponse(bodyBytes)
    IN IF e # "nil"
       THEN Error(ParseError, "error parsing json in token response: " \o e)
       ELSE IF Len(parsed.Response) = 0
       THEN Error(ParseError, "no data in response")
       ELSE IF Len(parsed.Response[1].Result) = 0
       THEN [map |-> {}]
       ELSE [map |-> parsed.Response[1].Result[1]]

objectAPIParse(bodyBytes) ==
    LET e == ObjectUnmarshalError(bodyBytes)
        parsed == bmcObjectAPIResponse(bodyBytes)
    IN IF e # "nil"
       THEN Error(ParseError, "error parsing json in token response: " \o e)
       ELSE IF Len(parsed.Response) = 0 \/ Len(parsed.Response[1].Result) = 0
       THEN Error(ParseError, "no data in response")
       ELSE [map |-> parsed.Response[1].Result[1]]

----------------------------------------------------------------------------
(* Requests and responses *)

tpiDefaultURL == "https://turingpi.local"

\* base URLs url.Parse rejects, so that http.NewRequest returns an error
MalformedURLs == {"http://[::1"}
NewRequestFails(baseURL) == baseURL \in MalformedURLs

\* base64 is one-to-one: the encoded text is written b64(<plain text>)
Base64(s) == "b64(" \o s \o ")"
\* (*http.Request).SetBasicAuth
BasicAuth(username, password) ==
    [name |-> "Authorization",
     value |-> "Basic " \o Base64(username \o ":" \o password)]

Request(url, header, body) ==
    [Method |-> "GET", URL |-> url, Header |-> header, Body |-> body]

\* what Client.Do hands back: an error, or a response whose body may fail
\* to read
NetErr(text) == [neterr |-> text]
Response(code, status, body, readErr) ==
    [StatusCode |-> code, Status |-> status, Body |-> body, ReadErr |-> readErr]
IsNetErr(resp) == "neterr" \in DOMAIN resp

StatusOK == 200

----------------------------------------------------------------------------
(* NewBMCAPI *)

NoClient == None

\* json.Unmarshal into bmcApiAuth
AuthKeys == {"id", "name", "description", "username", "password"}
AuthUnmarshalError(j) ==
    IF IsBad(j) THEN "syntax error"
    ELSE IF IsNull(j) THEN "nil"
    ELSE IF ~IsObj(j) THEN "type error"
    ELSE IF \A i \in 1..Len(j.obj) : j.obj[i].k \in AuthKeys => StringOK(j.obj[i].v)
    THEN "nil"
    ELSE "type error"
AuthField(j, key) ==
    IF IsObj(j) /\ HasKey(j, key) THEN StringOf(Field(j, key)) ELSE ""
bmcApiAuth(j) ==
    [AccessToken |-> AuthField(j, "id"),
     Name        |-> AuthField(j, "name"),
     Description |-> AuthField(j, "description"),
     Username    |-> AuthField(j, "username"),
     Password    |-> AuthField(j, "password")]
ZeroAuth == [AccessToken |-> "", Name |-> "", Description |-> "",
             Username |-> "", Password |-> ""]

BMCAPI(auth, baseURL, httpClient, authType) ==
    [auth |-> auth, BaseURL |-> baseURL, Client |-> httpClient, AuthType |-> authType]

DefaultedURL(baseURL) == IF baseURL = "" THEN tpiDefaultURL ELSE baseURL

NewBMCAPIRequest_AnyAuthType(baseURL, authType, username, password) ==
    LET url == DefaultedURL(baseURL) IN
    IF NewRequestFails(url) THEN None
    ELSE IF authType = "bearer"
    THEN Request(url \o "/api/bmc/authenticate",
                 {[name |-> "Content-Type", value |-> "application/json"]},
                 "{\"username\":\"" \o username \o "\",\"password\":\"" \o password \o "\"}")
    ELSE Request(url \o "/api/bmc?opt=get&type=info",
                 {BasicAuth(username, password)}, "")

\* the handshake request NewBMCAPI builds, None when it builds none
NewBMCAPIRequest(baseURL, authType, username, password) ==
    LET url == DefaultedURL(baseURL) IN
    IF authType # "basic" /\ authType # "bearer" THEN None
    ELSE IF NewRequestFails(url) THEN None
    ELSE IF authType = "bearer"
    THEN Request(url \o "/api/bmc/authenticate",
                 {[name |-> "Content-Type", value |-> "application/json"]},
                 "{\"username\":\"" \o username \o "\",\"password\":\"" \o password \o "\"}")
    ELSE Request(url \o "/api/bmc?opt=get&type=info",
                 {BasicAuth(username, password)}, "")

Returns(b, err) == [b |-> b, err |-> err]

NewBMCAPI_NoStatusCheck(baseURL, authType, username, password, httpClient, resp) ==
    LET url == DefaultedURL(baseURL) IN
    IF authType # "basic" /\ authType # "bearer"
    THEN Returns(NoClient, Error(ConfigError, "invalid auth type: " \o authType))
    ELSE IF NewRequestFails(url)
    THEN Returns(NoClient, Error(TransportError,
             "Error creating authentication request: parse error"))
    ELSE IF IsNetErr(resp)
    THEN Returns(NoClient, Error(TransportError, "Error making request: " \o resp.neterr))
    ELSE IF authType = "bearer"
    THEN IF resp.ReadErr
         THEN Returns(NoClient, Error(TransportError,
                  "error reading response body: unexpected EOF"))
         ELSE IF AuthUnmarshalError(resp.Body) # "nil"
         THEN Returns(NoClient, Error(ParseError,
                  "error parsing json in /token response: "
                      \o AuthUnmarshalError(resp.Body)))
         ELSE Returns(BMCAPI(bmcApiAuth(resp.Body), url, httpClient, authType), None)
    ELSE Returns(BMCAPI([ZeroAuth EXCEPT !.Username = username,
                                         !.Password = password],
                        url, httpClient, authType), None)

\* NewBMCAPI with the transport's answer to its handshake request as resp
NewBMCAPI(baseURL, authType, username, password, httpClient, resp) ==
    LET url == DefaultedURL(baseURL) IN
    IF authType # "basic" /\ authType # "bearer"
    THEN Returns(NoClient, Error(ConfigError, "invalid auth type: " \o authType))
    ELSE IF NewRequestFails(url)
    THEN Returns(NoClient, Error(TransportError,
             "Error creating authentication request: parse error"))
    ELSE IF authType = "bearer"
    THEN IF IsNetErr(resp)
         THEN Returns(NoClient, Error(TransportError,
                  "Error making request: " \o resp.neterr))
         ELSE IF resp.StatusCode # StatusOK
         THEN Returns(NoClient, Error(AuthenticationError,
                  "Error Authenticating: " \o resp.Status))
         ELSE IF resp.ReadErr
         THEN Returns(NoClient, Error(TransportError,
                  "error reading response body: unexpected EOF"))
         ELSE IF AuthUnmarshalError(resp.Body) # "nil"
         THEN Returns(NoClient, Error(ParseError,
                  "error parsing json in /token response: "
                      \o AuthUnmarshalError(resp.Body)))
         ELSE IF bmcApiAuth(resp.Body).AccessToken = ""
         THEN Returns(NoClient, Error(AuthenticationError,
                  "Authentication response does not contain an auth token"))
         ELSE Returns(BMCAPI(bmcApiAuth(resp.Body), url, httpClient, authType), None)
    ELSE IF IsNetErr(resp)
         THEN Returns(NoClient, Error(TransportError,
                  "Error making authentication test request: " \o resp.neterr))
         ELSE IF resp.StatusCode # StatusOK
         THEN Returns(NoClient, Error(AuthenticationError,
                  "Error from authentication test: " \o resp.Status))
         ELSE Returns(BMCAPI([ZeroAuth EXCEPT !.Username = username,
                                              !.Password = password],
                             url, httpClient, authType), None)

----------------------------------------------------------------------------
(* bmcAPICall *)

\* the request bmcAPICall builds for endpoint (it is called only when
\* http.NewRequest succeeds)
bmcAPIRequest_NoAuth(b, endpoint) ==
    Request(b.BaseURL \o endpoint, {}, "")

bmcAPIRequest(b, endpoint) ==
    Request(b.BaseURL \o endpoint,
            IF b.AuthType = "basic"
            THEN {BasicAuth(b.auth.Username, b.auth.Password)}
            ELSE IF b.AuthType = "bearer"
            THEN {[name |-> "Content-Type", value |-> "application/json"],
                  [name |-> "Authorization",
                   value |-> "Bearer " \o b.auth.AccessToken]}
            ELSE {},
            "")

bmcAPICall_NoStatusCheck(b, endpoint, resp) ==
    IF NewRequestFails(b.BaseURL)
    THEN Error(TransportError, "Error creating request: parse error")
    ELSE IF IsNetErr(resp)
    THEN Error(TransportError, "Error making request: " \o resp.neterr)
    ELSE IF resp.ReadErr
    THEN Error(TransportError, "error reading response body: unexpected EOF")
    ELSE [bytes |-> resp.Body]

\* bmcAPICall with the transport's answer to its request as resp
bmcAPICall(b, endpoint, resp) ==
    IF NewRequestFails(b.BaseURL)
    THEN Error(TransportError, "Error creating request: parse error")
    ELSE IF IsNetErr(resp)
    THEN Error(TransportError, "Error making request: " \o resp.neterr)
    ELSE IF resp.StatusCode # StatusOK
    THEN Error(HTTPStatusError, "http error in response: " \o resp.Status)
    ELSE IF resp.ReadErr
    THEN Error(TransportError, "error reading response body: unexpected EOF")
    ELSE [bytes |-> resp.Body]

----------------------------------------------------------------------------
(* The operations.  For each, <Op>Endpoint is what it does before the      *)
(* round trip (an error, or the endpoint it calls) and <Op> the value it   *)
(* returns when the transport answers resp.                                *)

Digit(d) == CASE d = 0 -> "0" [] d = 1 -> "1" [] d = 2 -> "2" [] d = 3 -> "3"
              [] d = 4 -> "4" [] d = 5 -> "5" [] d = 6 -> "6" [] d = 7 -> "7"
              [] d = 8 -> "8" [] d = 9 -> "9"
RECURSIVE Digits(_)
Digits(n) == IF n < 10 THEN Digit(n) ELSE Digits(n \div 10) \o Digit(n % 10)
\* strconv.Itoa
Itoa(n) == IF n < 0 THEN "-" \o Digits(-n) ELSE Digits(n)

Endpoint(path) == [endpoint |-> path]

NodeError == Error(ValidationError, "node number must be between 0 and 3")
PowerStateError == Error(ValidationError, "powerState must be 0 (off) or 1 (on)")

OtherEndpoint == Endpoint("/api/bmc?opt=get&type=other")

USBBootEndpoint(node) ==
    IF node < 0 \/ node > 3 THEN NodeError
    ELSE Endpoint("/api/bmc?opt=set&type=usb_boot&node=" \o Itoa(node))

ClearUSBBootEndpoint(node) ==
    IF node < 0 \/ node > 3 THEN NodeError
    ELSE Endpoint("/api/bmc?opt=set&type=clear_usb_boot&node=" \o Itoa(node))

ResetNetworkEndpoint == Endpoint("/api/bmc?opt=set&type=network")

NodetoMSDEndpoint(node) ==
    IF node < 0 \/ node > 3 THEN NodeError
    ELSE Endpoint("/api/bmc?opt=set&type=node_to_msd&node=" \o Itoa(node))

SetPowerEndpoint_NoStateCheck(node, powerState) ==
    IF node < 0 \/ node > 3 THEN NodeError
    ELSE Endpoint("/api/bmc?opt=power&type=set&node" \o Itoa(node)
                      \o "=" \o Itoa(powerState))

SetPowerEndpoint(node, powerState) ==
    IF node < 0 \/ node > 3 THEN NodeError
    ELSE IF powerState < 0 \/ powerState > 1 THEN PowerStateError
    ELSE Endpoint("/api/bmc?opt=power&type=set&node" \o Itoa(node)
                      \o "=" \o Itoa(powerState))

GetPowerEndpoint == Endpoint("/api/bmc?opt=get&type=power")

\* result[key] on a Go map: the zero value when the key is missing
MapIndex(m, key) ==
    IF \E e \in m : e.key = key THEN (CHOOSE e \in m : e.key = key).val ELSE ""

bmcOther_Swapped(result) ==
    [API          |-> MapIndex(result, "api"),
     BuildVersion |-> MapIndex(result, "version"),
     Buildroot    |-> MapIndex(result, "buildroot"),
     Buildtime    |-> MapIndex(result, "buildtime"),
     IP           |-> MapIndex(result, "ip"),
     MAC          |-> MapIndex(result, "mac"),
     Version      |-> MapIndex(result, "build_version")]

\* the bmcOther literal Other fills from the parsed map
bmcOther(result) ==
    [API          |-> MapIndex(result, "api"),
     BuildVersion |-> MapIndex(result, "build_version"),
     Buildroot    |-> MapIndex(result, "buildroot"),
     Buildtime    |-> MapIndex(result, "buildtime"),
     IP           |-> MapIndex(result, "ip"),
     MAC          |-> MapIndex(result, "mac"),
     Version      |-> MapIndex(result, "version")]

OtherParse(bodyBytes) ==
    LET result == objectAPIParse(bodyBytes) IN
    IF IsError(result) THEN Wrap("error parsing response: ", result)
    ELSE [other |-> bmcOther(result.map)]

Other(b, resp) ==
    LET called == bmcAPICall(b, OtherEndpoint.endpoint, resp) IN
        IF IsError(called) THEN Wrap("error during USB Boot API call: ", called)
        ELSE OtherParse(called.bytes)

USBBoot(b, node, resp) ==
    LET pre == USBBootEndpoint(node) IN
    IF IsError(pre) THEN pre
    ELSE LET called == bmcAPICall(b, pre.endpoint, resp) IN
        IF IsError(called) THEN Wrap("error during USB Boot API call: ", called)
        ELSE resultAPIParse(called.bytes)

ClearUSBBoot(b, node, resp) ==
    LET pre == ClearUSBBootEndpoint(node) IN
    IF IsError(pre) THEN pre
    ELSE LET called == bmcAPICall(b, pre.endpoint, resp) IN
        IF IsError(called) THEN Wrap("error during Clear USB Boot API call: ", called)
        ELSE resultAPIParse(called.bytes)

ResetNetwork(b, resp) ==
    LET called == bmcAPICall(b, ResetNetworkEndpoint.endpoint, resp) IN
        IF IsError(called) THEN Wrap("error during Reset Network Switch call: ", called)
        ELSE resultAPIParse(called.bytes)

NodetoMSD(b, node, resp) ==
    LET pre == NodetoMSDEndpoint(node) IN
    IF IsError(pre) THEN pre
    ELSE LET called == bmcAPICall(b, pre.endpoint, resp) IN
        IF IsError(called) THEN Wrap("error during Node to MSD call: ", called)
        ELSE resultAPIParse(called.bytes)

SetPower(b, node, powerState, resp) ==
    LET pre == SetPowerEndpoint(node, powerState) IN
    IF IsError(pre) THEN pre
    ELSE LET called == bmcAPICall(b, pre.endpoint, resp) IN
        IF IsError(called) THEN Wrap("error during Set Power call: ", called)
        ELSE resultAPIParse(called.bytes)

GetPower(b, resp) ==
    LET called == bmcAPICall(b, GetPowerEndpoint.endpoint, resp) IN
        IF IsError(called) THEN Wrap("error during Get Power call: ", called)
        ELSE objectAPIParse(called.bytes)

----------------------------------------------------------------------------
(* Other as the second definition in the source has it: one function that  *)
(* builds the request itself and decodes the result list through the       *)
(* struct tags of bmcOther.                                                *)

OtherTags == {"api", "build_version", "buildroot", "buildtime", "ip", "mac", "version"}

\* json.Unmarshal into a bmcOther: tagged members must be strings, members
\* with other keys are skipped
TaggedOK(j) ==
    \/ IsNull(j)
    \/ IsObj(j) /\ \A i \in 1..Len(j.obj) :
                       j.obj[i].k \in OtherTags => StringOK(j.obj[i].v)
TaggedField(j, key) ==
    IF IsObj(j) /\ HasKey(j, key) THEN StringOf(Field(j, key)) ELSE ""
TaggedOf(j) ==
    [API          |-> TaggedField(j, "api"),
     BuildVersion |-> TaggedField(j, "build_version"),
     Buildroot    |-> TaggedField(j, "buildroot"),
     Buildtime    |-> TaggedField(j, "buildtime"),
     IP           |-> TaggedField(j, "ip"),
     MAC          |-> TaggedField(j, "mac"),
     Version      |-> TaggedField(j, "version")]

\* struct { Result []bmcOther `json:"result"` }
TaggedElemOK(j) ==
    \/ IsNull(j)
    \/ IsObj(j) /\ (HasKey(j, "result") =>
          LET r == Field(j, "result") IN
            \/ IsNull(r)
            \/ IsArr(r) /\ \A i \in 1..Len(r.arr) : TaggedOK(r.arr[i]))
TaggedElemOf(j) ==
    [Result |-> IF IsObj(j) /\ HasKey(j, "result") /\ IsArr(Field(j, "result"))
                THEN [i \in 1..Len(Field(j, "result").arr) |->
                          TaggedOf(Field(j, "result").arr[i])]
                ELSE <<>>]

TaggedUnmarshalError(j) ==
    UnmarshalError(j, \A i \in 1..Len(ResponseItems(j)) : TaggedElemOK(ResponseItems(j)[i]))

bmcOtherResponse(j) ==
    [Response |-> [i \in 1..Len(ResponseItems(j)) |-> TaggedElemOf(ResponseItems(j)[i])]]

OtherTagged(b, resp) ==
    IF NewRequestFails(b.BaseURL)
    THEN Error(TransportError, "Error creating Get Other request: parse error")
    ELSE IF IsNetErr(resp)
    THEN Error(TransportError, "Error making Get Other request: " \o resp.neterr)
    ELSE IF resp.StatusCode # StatusOK
    THEN Error(HTTPStatusError, "http error in response: " \o resp.Status)
    ELSE IF resp.ReadErr
    THEN Error(TransportError, "error reading response body: unexpected EOF")
    ELSE LET e == TaggedUnmarshalError(resp.Body)
             parsed == bmcOtherResponse(resp.Body)
         IN IF e # "nil"
            THEN Error(ParseError, "error parsing json in /token response: " \o e)
            ELSE IF Len(parsed.Response) = 0 \/ Len(parsed.Response[1].Result) = 0
            THEN Error(ParseError, "no data in response")
            ELSE [other |-> parsed.Response[1].Result[1]]

----------------------------------------------------------------------------
(* Dispatch on the operation a caller is in *)

Ops == {"Other", "OtherTagged", "USBBoot", "ClearUSBBoot", "ResetNetwork",
        "NodetoMSD", "SetPower", "GetPower"}
ScalarOps == {"USBBoot", "ClearUSBBoot", "ResetNetwork", "NodetoMSD", "SetPower"}
NodeOps == {"USBBoot", "ClearUSBBoot", "NodetoMSD", "SetPower"}

OpEndpoint(op, node, powerState) ==
    CASE op = "Other"        -> OtherEndpoint
      [] op = "OtherTagged"  -> OtherEndpoint
      [] op = "USBBoot"      -> USBBootEndpoint(node)
      [] op = "ClearUSBBoot" -> ClearUSBBootEndpoint(node)
      [] op = "ResetNetwork" -> ResetNetworkEndpoint
      [] op = "NodetoMSD"    -> NodetoMSDEndpoint(node)
      [] op = "SetPower"     -> SetPowerEndpoint(node, powerState)
      [] op = "GetPower"     -> GetPowerEndpoint

OpReturn(op, b, node, powerState, resp) ==
    CASE op = "Other"        -> Other(b, resp)
      [] op = "OtherTagged"  -> OtherTagged(b, resp)
      [] op = "USBBoot"      -> USBBoot(b, node, resp)
      [] op = "ClearUSBBoot" -> ClearUSBBoot(b, node, resp)
      [] op = "ResetNetwork" -> ResetNetwork(b, resp)
      [] op = "NodetoMSD"    -> NodetoMSD(b, node, resp)
      [] op = "SetPower"     -> SetPower(b, node, powerState, resp)
      [] op = "GetPower"     -> GetPower(b, resp)

----------------------------------------------------------------------------
(* State machine *)

Idle == [pc |-> "idle", op |-> "", node |-> 0, powerState |-> 0,
         req |-> None, sent |-> 0, resp |-> None, ret |-> None]

\* a panic in any caller ends the process
Crashed == \E c \in DOMAIN calls : IsPanic(calls[c].ret)

\* NewBMCAPI is called: it returns at once when the auth type or the
\* request is refused, and else hands its handshake request to the
\* transport and waits in client.Do for the answer
Construct(baseURL, authType, username, password) ==
    LET req == NewBMCAPIRequest(baseURL, authType, username, password)
        call == [pc |-> "sent", baseURL |-> baseURL, authType |-> authType,
                 username |-> username, password |-> password,
                 req |-> req, resp |-> None, err |-> None]
    IN /\ IsNone(newCall)
       /\ IF IsNone(req)
          THEN /\ newCall' =
                      [call EXCEPT !.pc = "done",
                                   !.err = NewBMCAPI(baseURL, authType, username,
                                                     password, "transport", None).err]
               /\ UNCHANGED nRequests
          ELSE /\ newCall' = call
               /\ nRequests' = nRequests + 1
       /\ UNCHANGED <<client, calls, helperIn, helperOut>>

\* the transport answers the handshake request with resp; NewBMCAPI reads
\* the answer and returns
Handshake(resp) ==
    LET r == NewBMCAPI(newCall.baseURL, newCall.authType, newCall.username,
                       newCall.password, "transport", resp)
    IN /\ ~IsNone(newCall)
       /\ newCall.pc = "sent"
       /\ newCall' = [newCall EXCEPT !.pc = "done", !.resp = resp, !.err = r.err]
       /\ client' = r.b
       /\ UNCHANGED <<nRequests, calls, helperIn, helperOut>>

\* caller c enters operation op: the operation returns at once when its
\* arguments or its request are refused, and else hands its request to the
\* transport and waits for the answer
Enter(c, op, node, powerState) ==
    LET pre == OpEndpoint(op, node, powerState)
        call == [Idle EXCEPT !.op = op, !.node = node, !.powerState = powerState]
    IN /\ ~IsNone(client)
       /\ ~Crashed
       /\ calls[c].pc = "idle"
       /\ IF IsError(pre) \/ NewRequestFails(client.BaseURL)
          THEN /\ calls' = [calls EXCEPT ![c] =
                      [call EXCEPT !.pc = "done",
                                   !.ret = OpReturn(op, client, node, powerState, None)]]
               /\ UNCHANGED nRequests
          ELSE /\ nRequests < MaxRequests
               /\ calls' = [calls EXCEPT ![c] =
                      [call EXCEPT !.pc = "sent", !.sent = 1,
                                   !.req = bmcAPIRequest(client, pre.endpoint)]]
               /\ nRequests' = nRequests + 1
       /\ UNCHANGED <<client, newCall, helperIn, helperOut>>

CallOther(c) == Enter(c, "Other", 0, 0)
CallOtherTagged(c) == Enter(c, "OtherTagged", 0, 0)
CallUSBBoot(c, node) == Enter(c, "USBBoot", node, 0)
CallClearUSBBoot(c, node) == Enter(c, "ClearUSBBoot", node, 0)
CallResetNetwork(c) == Enter(c, "ResetNetwork", 0, 0)
CallNodetoMSD(c, node) == Enter(c, "NodetoMSD", node, 0)
CallSetPower(c, node, powerState) == Enter(c, "SetPower", node, powerState)
CallGetPower(c) == Enter(c, "GetPower", 0, 0)

Complete_StoresToken(c, resp) ==
    /\ ~IsNone(client)
    /\ ~Crashed
    /\ calls[c].pc = "sent"
    /\ calls' = [calls EXCEPT ![c] =
           [@ EXCEPT !.pc = "done", !.resp = resp,
                     !.ret = OpReturn(calls[c].op, client, calls[c].node,
                                      calls[c].powerState, resp)]]
    /\ client' = IF IsNetErr(resp) THEN client
                 ELSE [client EXCEPT !.auth.AccessToken = resp.Status]
    /\ UNCHANGED <<newCall, nRequests, helperIn, helperOut>>

\* the transport answers caller c's request with resp and the operation
\* returns
Complete(c, resp) ==
    /\ ~IsNone(client)
    /\ ~Crashed
    /\ calls[c].pc = "sent"
    /\ calls' = [calls EXCEPT ![c] =
           [@ EXCEPT !.pc = "done", !.resp = resp,
                     !.ret = OpReturn(calls[c].op, client, calls[c].node,
                                      calls[c].powerState, resp)]]
    /\ UNCHANGED <<client, newCall, nRequests, helperIn, helperOut>>

\* caller c takes the returned value and is free to call again
Return(c) ==
    /\ ~Crashed
    /\ calls[c].pc = "done"
    /\ calls' = [calls EXCEPT ![c] = Idle]
    /\ UNCHANGED <<client, newCall, nRequests, helperIn, helperOut>>

----------------------------------------------------------------------------
(* The parse helpers run on their own *)

RunResultAPIParse ==
    /\ IsNone(helperOut)
    /\ helperOut' = [fn |-> "resultAPIParse", ret |-> resultAPIParse(helperIn)]
    /\ UNCHANGED <<client, newCall, nRequests, calls, helperIn>>

RunObjectAPIParse ==
    /\ IsNone(helperOut)
    /\ helperOut' = [fn |-> "objectAPIParse", ret |-> objectAPIParse(helperIn)]
    /\ UNCHANGED <<client, newCall, nRequests, calls, helperIn>>

----------------------------------------------------------------------------
(* Inputs *)

\* {"response":[{"result": r}]}
Envelope(r) ==
    JObj(<<Member("response", JArr(<<JObj(<<Member("result", r)>>)>>))>>)

\* the result object of the test's canned response
OtherFixture ==
    JObj(<<Member("api", JStr("1.1")),
           Member("build_version", JStr("2024.05.1")),
           Member("buildroot", JStr("\"Buildroot 2024.05.1\"")),
           Member("buildtime", JStr("2025-01-17 17:12:52-00:00")),
           Member("ip", JStr("Unknown")),
           Member("mac", JStr("Unknown")),
           Member("version", JStr("2.3.4"))>>)

\* every field its own value, so that a swap of two fields shows
OtherDistinct ==
    JObj(<<Member("version", JStr("v")),
           Member("mac", JStr("m")),
           Member("ip", JStr("i")),
           Member("buildtime", JStr("t")),
           Member("buildroot", JStr("r")),
           Member("build_version", JStr("b")),
           Member("api", JStr("a"))>>)

PowerObject ==
    JObj(<<Member("node1", JStr("1")), Member("node2", JStr("0")),
           Member("node3", JStr("1")), Member("node4", JStr("0"))>>)

\* elements of an inner "result" list
InnerElems ==
    {OtherFixture, PowerObject, JObj(<<>>), JNull,
     JObj(<<Member("api", JStr("1.1")), Member("uptime", JNum(7))>>)}
InnerLists == { JArr(s) : s \in SeqsUpTo(InnerElems, MaxResultLen) }

ResultVals == {JNull, JStr(""), JStr("ok"), JNum(0)} \cup InnerLists

\* elements of the outer "response" list
ResponseElems ==
    {JNull, JStr("x"), JObj(<<>>),
     JObj(<<Member("status", JNum(1)), Member("result", JStr("done"))>>)}
    \cup { JObj(<<Member("result", r)>>) : r \in ResultVals }

ResponseVals ==
    {JNull, JStr("x")}
    \cup { JArr(s) : s \in SeqsUpTo(ResponseElems, MaxResponseLen) }

\* bodies handed to the parse helpers
Bodies ==
    {JBad, JNull, JStr("x"), JArr(<<>>), JObj(<<>>)}
    \cup { JObj(<<Member("response", r)>>) : r \in ResponseVals }

\* bodies the transport answers operation calls with
WireBodies ==
    {JBad, JNull, JObj(<<>>),
     JObj(<<Member("response", JArr(<<>>))>>),
     Envelope(JStr("ok")), Envelope(JStr("")),
     Envelope(JArr(<<>>)),
     Envelope(JArr(<<OtherFixture>>)),
     Envelope(JArr(<<OtherDistinct>>)),
     Envelope(JArr(<<PowerObject>>)),
     Envelope(JArr(<<JObj(<<Member("api", JStr("1.1")), Member("uptime", JNum(7))>>)>>)),
     JObj(<<Member("response",
                   JArr(<<JObj(<<Member("result", JStr("first"))>>),
                          JObj(<<Member("result", JStr("second"))>>)>>))>>)}

WireResponses ==
    {NetErr("connection refused")}
    \cup { Response(200, "200 OK", body, FALSE) : body \in WireBodies }
    \cup { Response(200, "200 OK", Envelope(JStr("ok")), TRUE) }
    \cup { Response(404, "404 Not Found", body, FALSE) :
               body \in {JBad, Envelope(JStr("ok")), Envelope(JArr(<<OtherFixture>>))} }
    \cup { Response(500, "500 Internal Server Error", Envelope(JStr("ok")), FALSE),
           Response(404, "", JBad, FALSE) }

NodeInputs == {-1, 0, 3, 4}
PowerInputs == {-1, 0, 1, 2}

BaseURLs == {"", "http://mock", "http://[::1"}
AuthTypes == {"basic", "bearer", "digest", "Basic", ""}
Usernames == {"user", "root"}
Passwords == {"pass"}

Token(id) == JObj(<<Member("id", JStr(id))>>)
AuthBodies ==
    {JBad, JNull, JObj(<<>>), Token(""), Token("tok"),
     JObj(<<Member("id", JNum(5))>>),
     JObj(<<Member("name", JStr("session")), Member("id", JStr("tok2")),
            Member("username", JStr("admin")), Member("password", JStr("secret"))>>)}

HandshakeResponses ==
    {NetErr("connection refused"),
     Response(401, "401 Unauthorized", Token("tok"), FALSE),
     Response(403, "", Token("tok"), FALSE),
     Response(200, "200 OK", Token("tok"), TRUE)}
    \cup { Response(200, "200 OK", body, FALSE) : body \in AuthBodies }

\* inputs of the runs with several callers
ConcResponses ==
    {Response(200, "200 OK", Envelope(JStr("ok")), FALSE),
     Response(200, "200 OK", Envelope(JArr(<<OtherFixture>>)), FALSE),
     Response(404, "404 Not Found", JBad, FALSE)}
ConcHandshakes ==
    {Response(200, "200 OK", Token("tok"), FALSE),
     Response(401, "401 Unauthorized", JBad, FALSE)}

----------------------------------------------------------------------------
(* Specifications *)

InitWith(callers) ==
    /\ client = NoClient
    /\ newCall = None
    /\ nRequests = 0
    /\ calls = [c \in callers |-> Idle]
    /\ helperIn = JBad
    /\ helperOut = None

\* one caller, every input
Init == InitWith({1})

Next ==
    \/ \E baseURL \in BaseURLs, authType \in AuthTypes, username \in Usernames,
          password \in Passwords :
          Construct(baseURL, authType, username, password)
    \/ \E resp \in HandshakeResponses : Handshake(resp)
    \/ \E c \in DOMAIN calls : CallOther(c)
    \/ \E c \in DOMAIN calls : CallOtherTagged(c)
    \/ \E c \in DOMAIN calls, node \in NodeInputs : CallUSBBoot(c, node)
    \/ \E c \in DOMAIN calls, node \in NodeInputs : CallClearUSBBoot(c, node)
    \/ \E c \in DOMAIN calls : CallResetNetwork(c)
    \/ \E c \in DOMAIN calls, node \in NodeInputs : CallNodetoMSD(c, node)
    \/ \E c \in DOMAIN calls, node \in NodeInputs, powerState \in PowerInputs :
          CallSetPower(c, node, powerState)
    \/ \E c \in DOMAIN calls : CallGetPower(c)
    \/ \E c \in DOMAIN calls, resp \in WireResponses : Complete(c, resp)
    \/ \E c \in DOMAIN calls : Return(c)

Spec == Init /\ [][Next]_vars

\* NumCallers callers of one client, their calls interleaved
ConcInit == InitWith(1..NumCallers)

ConcNext ==
    \/ \E authType \in {"basic", "bearer"} :
          Construct("http://mock", authType, "user", "pass")
    \/ \E resp \in ConcHandshakes : Handshake(resp)
    \/ \E c \in DOMAIN calls : CallOther(c)
    \/ \E c \in DOMAIN calls : CallOtherTagged(c)
    \/ \E c \in DOMAIN calls, node \in {0, 4} : CallUSBBoot(c, node)
    \/ \E c \in DOMAIN calls, node \in {0, 4} : CallClearUSBBoot(c, node)
    \/ \E c \in DOMAIN calls : CallResetNetwork(c)
    \/ \E c \in DOMAIN calls, node \in {0, 4} : CallNodetoMSD(c, node)
    \/ \E c \in DOMAIN calls, node \in {0, 4} : CallSetPower(c, node, 1)
    \/ \E c \in DOMAIN calls : CallGetPower(c)
    \/ \E c \in DOMAIN calls, resp \in ConcResponses : Complete(c, resp)
    \/ \E c \in DOMAIN calls : Return(c)

ConcSpec == ConcInit /\ [][ConcNext]_vars

\* the parse helpers on every body
ParseInit ==
    /\ client = NoClient
    /\ newCall = None
    /\ nRequests = 0
    /\ calls = [c \in {1} |-> Idle]
    /\ helperIn \in Bodies
    /\ helperOut = None

ParseNext == RunResultAPIParse \/ RunObjectAPIParse

ParseSpec == ParseInit /\ [][ParseNext]_vars

----------------------------------------------------------------------------
(* Properties *)

IsValue(r) == "string" \in DOMAIN r \/ "map" \in DOMAIN r \/ "other" \in DOMAIN r
IsErrorOf(r, kind) == IsError(r) /\ r.err = kind
IsHTTP(resp) == "StatusCode" \in DOMAIN resp
Delivered200(call) ==
    /\ call.pc = "done" /\ IsHTTP(call.resp)
    /\ call.resp.StatusCode = 200 /\ ~call.resp.ReadErr

\* well-formed JSON whose outer "response" list is empty or absent
NoResponseList(j) ==
    \/ IsNull(j)
    \/ IsObj(j) /\ ~HasKey(j, "response")
    \/ IsObj(j) /\ HasKey(j, "response") /\ IsNull(Field(j, "response"))
    \/ IsObj(j) /\ HasKey(j, "response") /\ IsArr(Field(j, "response"))
          /\ Len(Field(j, "response").arr) = 0

\* C1: every operation call returns a parsed value or an error of a listed
\* kind; a scalar-result operation that receives 200 and well-formed JSON
\* with an empty or absent "response" list returns a ParseError.
C1_ValueOrListedError ==
    \A c \in DOMAIN calls :
        calls[c].pc = "done" =>
            /\ \/ IsValue(calls[c].ret)
               \/ IsError(calls[c].ret) /\ calls[c].ret.err \in ErrorKinds
            /\ (/\ calls[c].op \in ScalarOps
                /\ Delivered200(calls[c])
                /\ NoResponseList(calls[c].resp.Body))
               => IsErrorOf(calls[c].ret, ParseError)

\* C2: a node outside [0,3] makes every node-taking operation fail with a
\* ValidationError, and so does a power state outside {0,1} for SetPower
\* with a node in [0,3]; the transport is not invoked.
C2_ValidationBeforeTransport ==
    \A c \in DOMAIN calls :
        (/\ calls[c].pc # "idle"
         /\ calls[c].op \in NodeOps
         /\ \/ calls[c].node \notin 0..3
            \/ calls[c].op = "SetPower" /\ calls[c].powerState \notin {0, 1})
        => /\ calls[c].pc = "done"
           /\ IsErrorOf(calls[c].ret, ValidationError)
           /\ calls[c].sent = 0
           /\ IsNone(calls[c].req)
           /\ IsNone(calls[c].resp)

C2_Witness ==
    \E c \in DOMAIN calls :
        /\ calls[c].pc = "done" /\ calls[c].op = "SetPower"
        /\ calls[c].node = 3 /\ calls[c].powerState = 2
        /\ IsErrorOf(calls[c].ret, ValidationError)

Header(name, value) == [name |-> name, value |-> value]

\* C3: every request of an operation call on a constructed client carries
\* the construction-time credentials: in bearer mode Authorization: Bearer
\* <id> with the id of the handshake response, in basic mode the Basic
\* header of the constructor's username and password.
C3_RequestsCarryAuth ==
    ~IsNone(client) =>
        \A c \in DOMAIN calls :
            calls[c].sent = 1 =>
                /\ newCall.authType = "bearer" =>
                       Header("Authorization",
                              "Bearer " \o Field(newCall.resp.Body, "id").str)
                           \in calls[c].req.Header
                /\ newCall.authType = "basic" =>
                       Header("Authorization",
                              "Basic " \o Base64(newCall.username \o ":" \o newCall.password))
                           \in calls[c].req.Header

C3_Witness ==
    /\ ~IsNone(client)
    /\ newCall.authType = "bearer"
    /\ Field(newCall.resp.Body, "id") = JStr("tok2")
    /\ \E c \in DOMAIN calls :
           /\ calls[c].pc = "sent"
           /\ Header("Authorization", "Bearer tok2") \in calls[c].req.Header

\* C4: NewBMCAPI with an authType other than "basic" or "bearer" fails with
\* the invalid-auth-type error, returns no client and sends no request.
C4_InvalidAuthType ==
    (~IsNone(newCall) /\ newCall.authType \notin {"basic", "bearer"}) =>
        /\ IsErrorOf(newCall.err, ConfigError)
        /\ newCall.err.msg = "invalid auth type: " \o newCall.authType
        /\ IsNone(client)
        /\ IsNone(newCall.req)
        /\ nRequests = 0

C4_Witness ==
    /\ ~IsNone(newCall)
    /\ newCall.authType = "Basic"
    /\ IsErrorOf(newCall.err, ConfigError)

TokenDecoded(body) == AuthUnmarshalError(body) = "nil"

\* C5: NewBMCAPI returns a client only for a handshake response of status
\* 200 that, in bearer mode, decodes to a non-empty token; a non-200
\* status, or a bearer response of status 200 decoded with an empty token,
\* is an AuthenticationError and no client.
C5_ClientOnlyAfterHandshake ==
    ~IsNone(newCall) =>
        /\ newCall.pc = "sent" => IsNone(client)
        /\ ~IsNone(client) =>
               /\ IsNone(newCall.err)
               /\ IsHTTP(newCall.resp)
               /\ newCall.resp.StatusCode = 200
               /\ newCall.authType = "bearer" =>
                      /\ IsObj(newCall.resp.Body)
                      /\ HasKey(newCall.resp.Body, "id")
                      /\ IsStr(Field(newCall.resp.Body, "id"))
                      /\ Field(newCall.resp.Body, "id").str # ""
        /\ (IsHTTP(newCall.resp) /\ newCall.resp.StatusCode # 200) =>
               /\ IsErrorOf(newCall.err, AuthenticationError)
               /\ IsNone(client)
        /\ (/\ newCall.authType = "bearer"
            /\ IsHTTP(newCall.resp)
            /\ newCall.resp.StatusCode = 200
            /\ ~newCall.resp.ReadErr
            /\ TokenDecoded(newCall.resp.Body)
            /\ bmcApiAuth(newCall.resp.Body).AccessToken = "") =>
               /\ IsErrorOf(newCall.err, AuthenticationError)
               /\ IsNone(client)

C5_Witness ==
    /\ ~IsNone(newCall)
    /\ newCall.authType = "bearer"
    /\ IsHTTP(newCall.resp)
    /\ newCall.resp.StatusCode = 200
    /\ newCall.resp.Body = Token("")
    /\ IsErrorOf(newCall.err, AuthenticationError)
    /\ IsNone(client)

\* the context each operation puts before bmcAPICall's error
CallPrefix(op) ==
    CASE op = "Other"        -> "error during USB Boot API call: "
      [] op = "OtherTagged"  -> ""
      [] op = "USBBoot"      -> "error during USB Boot API call: "
      [] op = "ClearUSBBoot" -> "error during Clear USB Boot API call: "
      [] op = "ResetNetwork" -> "error during Reset Network Switch call: "
      [] op = "NodetoMSD"    -> "error during Node to MSD call: "
      [] op = "SetPower"     -> "error during Set Power call: "
      [] op = "GetPower"     -> "error during Get Power call: "

\* C6: an operation call answered with a status other than 200 fails with
\* an HTTPStatusError carrying the status text, whatever the body, after
\* one transport invocation.
C6_Non200IsStatusError ==
    \A c \in DOMAIN calls :
        (calls[c].pc = "done" /\ IsHTTP(calls[c].resp)
             /\ calls[c].resp.StatusCode # 200) =>
            /\ calls[c].ret =
                   Error(HTTPStatusError,
                         CallPrefix(calls[c].op) \o "http error in response: "
                             \o calls[c].resp.Status)
            /\ calls[c].sent = 1

C6_Witness ==
    \E c \in DOMAIN calls :
        /\ calls[c].pc = "done"
        /\ calls[c].resp = Response(404, "404 Not Found", Envelope(JStr("ok")), FALSE)
        /\ IsErrorOf(calls[c].ret, HTTPStatusError)

\* the client as NewBMCAPI returned it
Built ==
    NewBMCAPI(newCall.baseURL, newCall.authType, newCall.username,
              newCall.password, "transport", newCall.resp).b

\* C7: in every interleaving of calls by several callers the client's auth
\* mode, credentials, base URL and transport stay as construction set them,
\* and each call's request and result are those of its own arguments and
\* its own response.
C7_ClientFixedCallsIndependent ==
    (~IsNone(newCall) /\ newCall.pc = "done") =>
        /\ client = Built
        /\ \A c \in DOMAIN calls :
               /\ calls[c].sent = 1 =>
                      calls[c].req =
                          bmcAPIRequest(Built,
                              OpEndpoint(calls[c].op, calls[c].node,
                                         calls[c].powerState).endpoint)
               /\ (calls[c].pc = "done" /\ ~IsNone(calls[c].resp)) =>
                      calls[c].ret =
                          OpReturn(calls[c].op, Built, calls[c].node,
                                   calls[c].powerState, calls[c].resp)

C7_Witness ==
    \E c1, c2 \in DOMAIN calls :
        /\ c1 # c2
        /\ calls[c1].pc = "done" /\ ~IsNone(calls[c1].resp)
        /\ calls[c2].pc = "sent"
        /\ calls[c1].op # calls[c2].op
        /\ client = Built

\* a body of the shape {"response":[{"result":"<string>"}, ...]}
ScalarElem(e) == IsObj(e) /\ HasKey(e, "result") /\ IsStr(Field(e, "result"))
ScalarEnvelope(j) ==
    /\ IsObj(j) /\ HasKey(j, "response") /\ IsArr(Field(j, "response"))
    /\ Len(Field(j, "response").arr) >= 1
    /\ \A i \in 1..Len(Field(j, "response").arr) :
           ScalarElem(Field(j, "response").arr[i])
FirstResult(j) == Field(Field(j, "response").arr[1], "result")

\* C8: on a scalar envelope resultAPIParse returns response[0].result when
\* that is a non-empty string, and fails with a ParseError and no value
\* when it is the empty string.
C8_ScalarParse ==
    (/\ ~IsNone(helperOut)
     /\ helperOut.fn = "resultAPIParse"
     /\ ScalarEnvelope(helperIn)) =>
        IF FirstResult(helperIn).str # ""
        THEN helperOut.ret = [string |-> FirstResult(helperIn).str]
        ELSE IsErrorOf(helperOut.ret, ParseError)

C8_Witness ==
    /\ ~IsNone(helperOut)
    /\ helperOut.fn = "resultAPIParse"
    /\ helperIn = Envelope(JStr("ok"))
    /\ helperOut.ret = [string |-> "ok"]

\* a body of the shape {"response":[{"result":[{"k":"v",...}, ...]}, ...]}
StringObject(o) == IsObj(o) /\ \A i \in 1..Len(o.obj) : IsStr(o.obj[i].v)
ObjectElem(e) ==
    /\ IsObj(e) /\ HasKey(e, "result") /\ IsArr(Field(e, "result"))
    /\ \A i \in 1..Len(Field(e, "result").arr) : StringObject(Field(e, "result").arr[i])
ObjectEnvelope(j) ==
    /\ IsObj(j) /\ HasKey(j, "response") /\ IsArr(Field(j, "response"))
    /\ Len(Field(j, "response").arr) >= 1
    /\ \A i \in 1..Len(Field(j, "response").arr) :
           ObjectElem(Field(j, "response").arr[i])
EmptyLists(j) ==
    /\ IsObj(j) /\ HasKey(j, "response") /\ IsArr(Field(j, "response"))
    /\ \/ Len(Field(j, "response").arr) = 0
       \/ /\ IsObj(Field(j, "response").arr[1])
          /\ HasKey(Field(j, "response").arr[1], "result")
          /\ IsArr(FirstResult(j))
          /\ Len(FirstResult(j).arr) = 0
Entries(o) == { [key |-> o.obj[i].k, val |-> o.obj[i].v.str] : i \in 1..Len(o.obj) }

\* C9: on an object envelope with a single-element result list
\* objectAPIParse returns the mapping with exactly that element's keys and
\* values; on an empty outer "response" list or an empty inner "result"
\* list it fails with a ParseError and no mapping.
C9_ObjectParse ==
    (~IsNone(helperOut) /\ helperOut.fn = "objectAPIParse") =>
        /\ (ObjectEnvelope(helperIn) /\ Len(FirstResult(helperIn).arr) = 1) =>
               helperOut.ret = [map |-> Entries(FirstResult(helperIn).arr[1])]
        /\ EmptyLists(helperIn) => IsErrorOf(helperOut.ret, ParseError)

C9_Witness ==
    /\ ~IsNone(helperOut)
    /\ helperOut.fn = "objectAPIParse"
    /\ helperIn = Envelope(JArr(<<PowerObject>>))
    /\ "map" \in DOMAIN helperOut.ret
    /\ Cardinality(helperOut.ret.map) = 4

\* C10: Other, on a 200 response whose object envelope holds one result
\* object, returns the record whose seven fields are the values under api,
\* build_version, buildroot, buildtime, ip, mac and version.
C10_OtherFieldsVerbatim ==
    \A c \in DOMAIN calls :
        (/\ calls[c].op \in {"Other", "OtherTagged"}
         /\ Delivered200(calls[c])
         /\ ObjectEnvelope(calls[c].resp.Body)
         /\ Len(Field(calls[c].resp.Body, "response").arr) = 1
         /\ Len(FirstResult(calls[c].resp.Body).arr) = 1
         /\ \A key \in OtherTags : HasKey(FirstResult(calls[c].resp.Body).arr[1], key))
        => LET o == FirstResult(calls[c].resp.Body).arr[1] IN
           calls[c].ret =
               [other |-> [API          |-> Field(o, "api").str,
                           BuildVersion |-> Field(o, "build_version").str,
                           Buildroot    |-> Field(o, "buildroot").str,
                           Buildtime    |-> Field(o, "buildtime").str,
                           IP           |-> Field(o, "ip").str,
                           MAC          |-> Field(o, "mac").str,
                           Version      |-> Field(o, "version").str]]

C10_Witness ==
    \E c \in DOMAIN calls :
        /\ calls[c].op = "Other"
        /\ Delivered200(calls[c])
        /\ calls[c].resp.Body = Envelope(JArr(<<OtherFixture>>))
        /\ calls[c].ret =
               [other |-> [API |-> "1.1", BuildVersion |-> "2024.05.1",
                           Buildroot |-> "\"Buildroot 2024.05.1\"",
                           Buildtime |-> "2025-01-17 17:12:52-00:00",
                           IP |-> "Unknown", MAC |-> "Unknown",
                           Version |-> "2.3.4"]]

====
